---- MODULE Spec2Model ----
(***************************************************************************)
(* AP2 payment processor: key registry (KeyManager), canonicalisation      *)
(* (JSONFactory), signer/verifier (MandateSigner), mandate builder         *)
(* (MandateFactory) and the verifying ledger (CryptoLedger).               *)
(*                                                                         *)
(* Conventions of the encoding                                             *)
(*   - a VC id "urn:uuid:<n>" is the natural n; 0 is a missing/None id     *)
(*   - a string field that is missing (or None/empty) is Absent            *)
(*   - a timestamp is a natural number of ticks; NoExp is a missing        *)
(*     expirationDate, BadExp one that strptime cannot parse, EmptyExp     *)
(*     one that is the empty string                                        *)
(*   - an amount is a positive natural; 0 is a missing amount key          *)
(*   - a proof is absent (present = FALSE), a JSON object (record = TRUE)   *)
(*     or another JSON value such as a string (record = FALSE)             *)
(*   - a signature is the pair (signing key, signed byte image): Ed25519   *)
(*     verification succeeds exactly when the public key belongs to the    *)
(*     signing key and the image is the one that was signed                *)
(***************************************************************************)
EXTENDS Integers, Sequences, FiniteSets, TLC

\* ------------------------------------------------------------------ bounds
MaxTime == 2
MaxId == 4
MaxTxns == 2
MaxEdits == 1
MaxAltered == 2
MaxKeyGens == 1
MaxSegments == 3

\* ------------------------------------------------------- encoding constants
Absent == "<absent>"
NoExp == 0
BadExp == -1
EmptyExp == -2
\* MandateFactory.mandate_expiry(hours=1): one hour, in ticks
HourTicks == 1

\* Main.main registers these four issuers and exports them as the trust root
MainIssuers == <<"issuer:user-wallet", "issuer:merchant", "issuer:processor", "issuer:netting">>
\* an issuer id that main() never registers
Rogue == "issuer:rogue"
\* an issuer given as an object ({"id": ...}) instead of a string
IssuerObject == "<object>"
\* "@context": the list mandate_wrap_vc writes, or one with a URL that
\* LOCAL_CONTEXTS does not hold
LocalContexts == "local"
UnknownContext == "<unknown>"
\* the line save_to_file writes before every record
Delimiter == "----- TRANSACTION COMPLETED -----"

\* ------------------------------------------------------------- base58
\* bytes and base-58 digits are sequences of naturals, most significant first
RECURSIVE LeadingZeros(_)
LeadingZeros(s) ==
    IF s = <<>> \/ Head(s) # 0 THEN 0 ELSE 1 + LeadingZeros(Tail(s))

RECURSIVE FromDigits(_, _, _)
FromDigits(s, base, acc) ==
    IF s = <<>> THEN acc ELSE FromDigits(Tail(s), base, acc * base + Head(s))

RECURSIVE ToDigits(_, _)
ToDigits(n, base) ==
    IF n = 0 THEN <<>> ELSE Append(ToDigits(n \div base, base), n % base)

Zeros(k) == [i \in 1..k |-> 0]

b58encode_drop_zeros(bytes) == ToDigits(FromDigits(bytes, 256, 0), 58)

\* base58.b58encode: leading zero bytes become leading '1' digits (digit 0)
b58encode(bytes) ==
    Zeros(LeadingZeros(bytes)) \o ToDigits(FromDigits(bytes, 256, 0), 58)

\* base58.b58decode: leading '1' digits become leading zero bytes
b58decode(digits) ==
    Zeros(LeadingZeros(digits)) \o ToDigits(FromDigits(digits, 58, 0), 256)

\* ------------------------------------------------------------- keys
\* nacl SigningKey.generate(): the n-th generated key; its verify key bytes
\* (two bytes here) are distinct for distinct keys
VerifyKeyBytes(sk) == <<sk \div 256, sk % 256>>

\* KeyManager.key_get_signer; the caller guards issuer \in DOMAIN ks
key_get_signer(ks, issuer) == ks[issuer]

\* KeyManager.key_get_pubkey_b58; the caller guards issuer \in DOMAIN ks
key_get_pubkey_b58(ks, issuer) == b58encode(VerifyKeyBytes(ks[issuer]))

\* KeyManager.key_export_public_keys
key_export_public_keys(ks) == [i \in DOMAIN ks |-> key_get_pubkey_b58(ks, i)]

\* A verificationMethod is the sequence of its '#'-separated segments:
\* "issuer:merchant#keys-1" is <<"issuer:merchant", "keys-1">>, a reference
\* without '#' has one segment, a missing or empty one is <<>>.
VmOf(issuer) == <<issuer, "keys-1">>

\* key_resolve_verification_method splitting at the last '#' (rsplit)
key_resolve_verification_method_last(ks, vm) ==
    IF Len(vm) < 2
    THEN [raised |-> TRUE, pub |-> <<>>, error |-> "ValueError"]
    ELSE IF Len(vm) > 2 \/ vm[1] \notin DOMAIN ks
         THEN [raised |-> TRUE, pub |-> <<>>, error |-> "KeyError"]
         ELSE [raised |-> FALSE, pub |-> b58decode(key_get_pubkey_b58(ks, vm[1])),
               error |-> "none"]

\* KeyManager.key_resolve_verification_method: [raised, pub, error].
\* vm_uri.split("#", 1) gives the part before the first '#' as the issuer.
key_resolve_verification_method(ks, vm) ==
    IF Len(vm) < 2                                 \* ValueError: no '#'
    THEN [raised |-> TRUE, pub |-> <<>>, error |-> "ValueError"]
    ELSE IF vm[1] \notin DOMAIN ks                 \* KeyError: unknown issuer
         THEN [raised |-> TRUE, pub |-> <<>>, error |-> "KeyError"]
         ELSE [raised |-> FALSE, pub |-> b58decode(key_get_pubkey_b58(ks, vm[1])),
               error |-> "none"]

\* ------------------------------------------------------------- mandates
\* The payload paths the ledger reads, per mandate:
\*   details          credentialSubject.details.{amount,currency}
\*   total            credentialSubject.contents.payment_request.details.total.amount.{value,currency}
\*   payment_details  credentialSubject.payment_details.{amount,currency}
NoTerms == [amount |-> 0, currency |-> Absent]
NoTotal == [value |-> 0, currency |-> Absent]

NoImage ==
    [id |-> 0, type |-> Absent, issuer |-> Absent, expirationDate |-> NoExp,
     prev_mandate_id |-> 0, merchant_id |-> Absent, payment_details |-> NoTerms]

NoProof ==
    [present |-> FALSE, record |-> TRUE, verificationMethod |-> <<>>,
     proofPurpose |-> Absent, proofValue |-> [key |-> 0, image |-> NoImage]]

\* a proof that is a JSON value other than an object
ScalarProof == [NoProof EXCEPT !.present = TRUE, !.record = FALSE]

\* json_local_loader raises for a URL outside LOCAL_CONTEXTS, and
\* jsonld.normalize with it
canonicalize_raises(vc) == vc.context = UnknownContext

\* json_canonicalize_vc_for_signing: the proof is popped and the rest is
\* expanded against LOCAL_CONTEXTS and normalised (URDNA2015).  JSON-LD
\* expansion keeps only the keys that a context maps to an IRI.  The
\* credentials context maps id, type, issuer, expirationDate and
\* credentialSubject; the inline mandates/v1 context maps, of the payload keys
\* modelled here, prev_mandate_id, merchant_id and payment_details (a @json
\* literal, so with everything below it).  "details" (the intent's terms) and
\* "contents" (the cart's payment request) are mapped by no context and are
\* not part of the image.
json_canonicalize_vc_for_signing(vc) ==
    [id |-> vc.id, type |-> vc.type, issuer |-> vc.issuer,
     expirationDate |-> vc.expirationDate,
     prev_mandate_id |-> vc.prev_mandate_id, merchant_id |-> vc.merchant_id,
     payment_details |-> vc.payment_details]

\* sign naming the first issuer's key in every proof
sign_fixed_method(ks, issuer_id, mandate_body) ==
    [present |-> TRUE,
     record |-> TRUE,
     verificationMethod |-> VmOf(MainIssuers[1]),
     proofPurpose |-> "assertionMethod",
     proofValue |-> [key |-> ks[issuer_id],
                     image |-> json_canonicalize_vc_for_signing(mandate_body)]]

\* MandateSigner.sign: the caller guards issuer_id \in DOMAIN ks (KeyError)
\* and ~canonicalize_raises(mandate_body)
sign(ks, issuer_id, mandate_body) ==
    [present |-> TRUE,
     record |-> TRUE,
     verificationMethod |-> VmOf(issuer_id),
     proofPurpose |-> "assertionMethod",
     proofValue |-> [key |-> ks[issuer_id],
                     image |-> json_canonicalize_vc_for_signing(mandate_body)]]

\* nacl VerifyKey(pubkey).verify(body_bytes, sig)
Ed25519Verify(pubkey, body_bytes, sig) ==
    /\ sig.key # 0
    /\ pubkey = VerifyKeyBytes(sig.key)
    /\ sig.image = body_bytes

\* MandateSigner.verify raises: the canonicalisation is outside its try block
verify_raises(mandate) ==
    mandate.proof.present /\ canonicalize_raises(mandate)

\* MandateSigner.verify returns True; the caller guards ~verify_raises(mandate).
\* Indexing a proof that is not an object raises inside the try block.
verify(mandate, ks) ==
    /\ mandate.proof.present
    /\ mandate.proof.record
    /\ mandate.proof.verificationMethod # <<>>
    /\ LET r == key_resolve_verification_method(ks, mandate.proof.verificationMethod)
       IN  /\ ~r.raised
           /\ Ed25519Verify(r.pub, json_canonicalize_vc_for_signing(mandate),
                            mandate.proof.proofValue)

\* MandateFactory.mandate_wrap_vc: expiration NoExp stands for "not given";
\* "expiration or ..." takes the default for an empty string too
mandate_wrap_vc(ks, issuer_id, id, now, mandate_type, payload, expiration) ==
    LET vc == [context |-> LocalContexts,
               id |-> id, type |-> mandate_type, issuer |-> issuer_id,
               expirationDate |-> IF expiration \notin {NoExp, EmptyExp}
                                  THEN expiration
                                  ELSE now + HourTicks,
               prev_mandate_id |-> payload.prev_mandate_id,
               merchant_id |-> payload.merchant_id,
               details |-> payload.details,
               total |-> payload.total,
               payment_details |-> payload.payment_details,
               proof |-> NoProof]
    IN  [vc EXCEPT !.proof = sign(ks, issuer_id, vc)]

\* MandateFactory.sending (without raw_intent): the IntentMandate
sending(ks, issuer_id, id, now, receiver, amount, currency) ==
    mandate_wrap_vc(ks, issuer_id, id, now, "IntentMandate",
        [prev_mandate_id |-> 0, merchant_id |-> receiver,
         details |-> [amount |-> amount, currency |-> currency],
         total |-> NoTotal, payment_details |-> NoTerms], NoExp)

\* checkout leaving prev_mandate_id out of the payload
checkout_unlinked(ks, issuer_id, id, now, receiver, amount, currency, prev_mandate_id) ==
    mandate_wrap_vc(ks, issuer_id, id, now, "CartMandate",
        [prev_mandate_id |-> 0, merchant_id |-> receiver,
         details |-> NoTerms,
         total |-> [value |-> amount, currency |-> currency],
         payment_details |-> NoTerms], NoExp)

\* MandateFactory.checkout: the CartMandate
checkout(ks, issuer_id, id, now, receiver, amount, currency, prev_mandate_id) ==
    mandate_wrap_vc(ks, issuer_id, id, now, "CartMandate",
        [prev_mandate_id |-> prev_mandate_id, merchant_id |-> receiver,
         details |-> NoTerms,
         total |-> [value |-> amount, currency |-> currency],
         payment_details |-> NoTerms], NoExp)

\* MandateFactory.confirmation: the PaymentMandate
confirmation(ks, issuer_id, id, now, receiver, amount, currency, prev_mandate_id) ==
    mandate_wrap_vc(ks, issuer_id, id, now, "PaymentMandate",
        [prev_mandate_id |-> prev_mandate_id, merchant_id |-> receiver,
         details |-> NoTerms, total |-> NoTotal,
         payment_details |-> [amount |-> amount, currency |-> currency]], NoExp)

\* MandateFactory.netting: the NettingMandate (prev_mandate_id is prev_ids[0])
netting(ks, issuer_id, id, now, counterparty, amount, currency, prev_mandate_id) ==
    mandate_wrap_vc(ks, issuer_id, id, now, "NettingMandate",
        [prev_mandate_id |-> prev_mandate_id, merchant_id |-> counterparty,
         details |-> NoTerms, total |-> NoTotal,
         payment_details |-> [amount |-> amount, currency |-> currency]], NoExp)

\* ------------------------------------------------------------- ledger
\* ledger_not_expired comparing with "now <= expirationDate"
ledger_not_expired_inclusive(vc, now) ==
    IF vc.expirationDate \in {NoExp, EmptyExp} THEN TRUE
    ELSE IF vc.expirationDate = BadExp THEN FALSE
    ELSE now <= vc.expirationDate

\* CryptoLedger.ledger_not_expired: "if not exp" returns True for a missing
\* and for an empty expirationDate; strptime raising is caught and returns
\* False; otherwise strict "now < expirationDate"
ledger_not_expired(vc, now) ==
    IF vc.expirationDate \in {NoExp, EmptyExp} THEN TRUE
    ELSE IF vc.expirationDate = BadExp THEN FALSE
    ELSE now < vc.expirationDate

\* ledger_not_revoked without its test for a missing id
ledger_not_revoked_no_id_test(vc, revoked) == vc.id \notin revoked

\* CryptoLedger.ledger_not_revoked
ledger_not_revoked(vc, revoked) ==
    IF vc.id = 0 THEN FALSE ELSE vc.id \notin revoked

\* CryptoLedger.ledger_issuer_trusted raises: proof.get on a proof that is no
\* object (line 77), trusted_issuers.get on an unhashable issuer (line 83)
ledger_issuer_trusted_raises(mandate) ==
    \/ mandate.proof.present /\ ~mandate.proof.record
    \/ /\ mandate.issuer = IssuerObject
       /\ mandate.proof.present
       /\ mandate.proof.verificationMethod # <<>>

\* ledger_issuer_trusted without the comparison of the resolved key
ledger_issuer_trusted_no_key_check(mandate, trusted, ks) ==
    LET vm == IF mandate.proof.present THEN mandate.proof.verificationMethod ELSE <<>>
    IN  /\ mandate.issuer # Absent
        /\ vm # <<>>
        /\ mandate.issuer \in DOMAIN trusted

\* CryptoLedger.ledger_issuer_trusted returns True; the caller guards
\* ~ledger_issuer_trusted_raises(mandate)
ledger_issuer_trusted(mandate, trusted, ks) ==
    LET vm == IF mandate.proof.present THEN mandate.proof.verificationMethod ELSE <<>>
    IN  /\ mandate.issuer # Absent
        /\ vm # <<>>
        /\ mandate.issuer \in DOMAIN trusted
        /\ LET r == key_resolve_verification_method(ks, vm)
           IN  /\ ~r.raised
               /\ b58encode(r.pub) = trusted[mandate.issuer]

\* CryptoLedger.ledger_verify_mandate: "ok", the check that failed first, or
\* "Raised" when a check raises
ledger_verify_mandate(mandate, trusted, ks, revoked, now) ==
    IF ledger_issuer_trusted_raises(mandate) THEN "Raised"
    ELSE IF ~ledger_issuer_trusted(mandate, trusted, ks) THEN "UntrustedIssuer"
    ELSE IF ~ledger_not_expired(mandate, now) THEN "Expired"
    ELSE IF ~ledger_not_revoked(mandate, revoked) THEN "Revoked"
    ELSE IF verify_raises(mandate) THEN "Raised"
    ELSE IF ~verify(mandate, ks) THEN "InvalidSignature"
    ELSE "ok"

\* the positions i of the pairs (mandates[i], mandates[i+1]) that do not link
ChainMismatches(mandates) ==
    {i \in 1..(Len(mandates) - 1) :
        mandates[i + 1].prev_mandate_id # mandates[i].id}

\* CryptoLedger.ledger_verify_chain: "ok", "ChainBroken", or "Raised" when the
\* message of the first mismatch reads the type of a mandate that has none
ledger_verify_chain(mandates) ==
    LET bad == ChainMismatches(mandates)
    IN  IF bad = {} THEN "ok"
        ELSE LET i == CHOOSE k \in bad : \A j \in bad : k <= j
             IN  IF mandates[i + 1].type = Absent \/ mandates[i].type = Absent
                 THEN "Raised"
                 ELSE "ChainBroken"

\* the business-invariant step of add_transaction (lines 155-185) on the
\* first three mandates; the caller guards Len(mandates) >= 3
TermsConsistent(mandates) ==
    LET intent_vc == mandates[1]
        cart_vc == mandates[2]
        payment_vc == mandates[3]
    IN  \* a missing key raises inside the try block
        /\ intent_vc.details.amount # 0
        /\ intent_vc.details.currency # Absent
        /\ intent_vc.merchant_id # Absent
        /\ cart_vc.total.value # 0
        /\ cart_vc.total.currency # Absent
        /\ cart_vc.merchant_id # Absent
        /\ payment_vc.payment_details.amount # 0
        /\ payment_vc.payment_details.currency # Absent
        /\ payment_vc.merchant_id # Absent
        /\ intent_vc.details.amount = cart_vc.total.value
        /\ cart_vc.total.value = payment_vc.payment_details.amount
        /\ intent_vc.details.currency = cart_vc.total.currency
        /\ cart_vc.total.currency = payment_vc.payment_details.currency
        /\ intent_vc.merchant_id = cart_vc.merchant_id
        /\ cart_vc.merchant_id = payment_vc.merchant_id

RECURSIVE FirstFailure(_, _, _, _, _)
\* the loop of add_transaction over the mandates (lines 146-149)
FirstFailure(mandates, trusted, ks, revoked, now) ==
    IF mandates = <<>> THEN "ok"
    ELSE LET r == ledger_verify_mandate(Head(mandates), trusted, ks, revoked, now)
         IN  IF r # "ok" THEN r
             ELSE FirstFailure(Tail(mandates), trusted, ks, revoked, now)

\* add_transaction without its test for an empty mandate list
add_transaction_outcome_no_empty_check(mandates, trusted, ks, revoked, now) ==
    LET r == FirstFailure(mandates, trusted, ks, revoked, now)
    IN  IF r # "ok" THEN r
        ELSE IF ledger_verify_chain(mandates) # "ok"
             THEN ledger_verify_chain(mandates)
        ELSE IF Len(mandates) >= 3 /\ mandates[1].type = Absent THEN "Raised"
        ELSE IF Len(mandates) >= 3 /\ mandates[1].type = "IntentMandate"
                /\ ~TermsConsistent(mandates) THEN "InconsistentTerms"
        ELSE "Accepted"

\* CryptoLedger.add_transaction: what the call returns or does.  "Accepted"
\* is the return of True (after the append); every other value but "Raised"
\* is a return of False, named after the check whose message is printed;
\* "Raised" is an exception that escapes the call.
add_transaction_outcome(mandates, trusted, ks, revoked, now) ==
    IF mandates = <<>> THEN "EmptyBatch"
    ELSE LET r == FirstFailure(mandates, trusted, ks, revoked, now)
         IN  IF r # "ok" THEN r
             ELSE IF ledger_verify_chain(mandates) # "ok"
                  THEN ledger_verify_chain(mandates)
             ELSE IF Len(mandates) >= 3 /\ mandates[1].type = Absent THEN "Raised"
             ELSE IF Len(mandates) >= 3 /\ mandates[1].type = "IntentMandate"
                     /\ ~TermsConsistent(mandates) THEN "InconsistentTerms"
             ELSE "Accepted"

\* ------------------------------------------------------------- state
VARIABLES
    keys,            \* KeyManager._keys: issuer id -> signing key
    nextKey,         \* the next key SigningKey.generate() returns
    trusted_issuers, \* CryptoLedger.trusted_issuers: issuer id -> base-58 key
    transactions,    \* CryptoLedger.transactions
    revoked_ids,     \* CryptoLedger.revoked_ids
    batch,           \* the mandates of the txn_record the caller holds
    signedAs,        \* per mandate of batch: the mandate as it was signed last
    now,             \* the UTC clock
    nextId,          \* the next uuid4
    edits,           \* calls and changes so far that the payment flows do not make
    result,          \* outcome of add_transaction when it was the last step
    revokeCalls,     \* ids a caller has asked the ledger to revoke
    checked,         \* what the last read-only call was given and returned
    log              \* the entries of the ledger file

vars == <<keys, nextKey, trusted_issuers, transactions, revoked_ids, batch,
          signedAs, now, nextId, edits, result, revokeCalls, checked, log>>

\* Main.main: four keys generated, then exported as the trust root
MainKeys == [i \in {MainIssuers[k] : k \in 1..Len(MainIssuers)} |->
                CHOOSE k \in 1..Len(MainIssuers) : MainIssuers[k] = i]

\* no read-only call has been made yet
NoCheck == [op |-> "none", on |-> <<>>, value |-> "none", consistent |-> 0,
            inconsistent |-> 0, out |-> <<>>]

\* Main.main and CryptoLedger.__init__: no transactions, nothing revoked
Init ==
    /\ keys = MainKeys
    /\ nextKey = Len(MainIssuers) + 1
    /\ trusted_issuers = key_export_public_keys(MainKeys)
    /\ transactions = <<>>
    /\ revoked_ids = {}
    /\ batch = <<>>
    /\ signedAs = <<>>
    /\ now = 0
    /\ nextId = 1
    /\ edits = 0
    /\ result = "none"
    /\ revokeCalls = {}
    /\ checked = NoCheck
    /\ log = <<>>

\* the arguments of the payment flows (PaymentProcessor.process_payment,
\* AgentPrompt.run_payment_process): one receiver, amount and currency for
\* every mandate, each mandate's prev the id of the one before it
FlowTerms == [receiver |-> "merchant", amount |-> 1, currency |-> "EUR"]
sending_signer == MainIssuers[1]
checkout_signer == MainIssuers[2]
confirmation_signer == MainIssuers[3]
netting_signer == MainIssuers[4]

\* a builder call of a flow made with one argument that is not the flow's
Whats == {"receiver", "amount", "currency", "delimiter"}
NoDev == [pos |-> 0, what |-> "none"]
Devs(n) == {NoDev} \cup [pos : 1..n, what : Whats]
TermsAt(dev, k) ==
    IF dev.pos # k THEN FlowTerms
    ELSE CASE dev.what = "receiver" -> [FlowTerms EXCEPT !.receiver = "m2"]
           [] dev.what = "amount" -> [FlowTerms EXCEPT !.amount = 2]
           [] dev.what = "currency" -> [FlowTerms EXCEPT !.currency = "USD"]
           [] dev.what = "delimiter" -> [FlowTerms EXCEPT !.receiver = Delimiter]
           [] OTHER -> FlowTerms

\* the mandates of AgentPrompt.run_payment_process's "intent" action
IntentMandates(ks, id, t, dev) ==
    <<sending(ks, sending_signer, id, t, TermsAt(dev, 1).receiver,
              TermsAt(dev, 1).amount, TermsAt(dev, 1).currency)>>

\* the mandates of process_payment and of the REPL payment flow
PaymentMandates(ks, id, t, dev) ==
    <<sending(ks, sending_signer, id, t, TermsAt(dev, 1).receiver,
              TermsAt(dev, 1).amount, TermsAt(dev, 1).currency),
      checkout(ks, checkout_signer, id + 1, t, TermsAt(dev, 2).receiver,
               TermsAt(dev, 2).amount, TermsAt(dev, 2).currency,
               id),
      confirmation(ks, confirmation_signer, id + 2, t, TermsAt(dev, 3).receiver,
                   TermsAt(dev, 3).amount, TermsAt(dev, 3).currency,
                   id + 1)>>

\* the mandates of the REPL payment flow with a settlement run
NettingMandates(ks, id, t, dev) ==
    <<sending(ks, sending_signer, id, t, TermsAt(dev, 1).receiver,
              TermsAt(dev, 1).amount, TermsAt(dev, 1).currency),
      checkout(ks, checkout_signer, id + 1, t, TermsAt(dev, 2).receiver,
               TermsAt(dev, 2).amount, TermsAt(dev, 2).currency,
               id),
      netting(ks, netting_signer, id + 2, t, TermsAt(dev, 3).receiver,
              TermsAt(dev, 3).amount, TermsAt(dev, 3).currency,
              id + 1),
      confirmation(ks, confirmation_signer, id + 3, t, TermsAt(dev, 4).receiver,
                   TermsAt(dev, 4).amount, TermsAt(dev, 4).currency,
                   id + 2)>>

Built(mandates, dev) ==
    /\ batch = <<>>
    /\ nextId + Len(mandates) - 1 <= MaxId
    /\ dev = NoDev \/ edits < MaxEdits
    /\ batch' = mandates
    /\ signedAs' = mandates
    /\ nextId' = nextId + Len(mandates)
    /\ edits' = IF dev = NoDev THEN edits ELSE edits + 1
    /\ result' = "none"
    /\ UNCHANGED <<keys, nextKey, trusted_issuers, transactions, revoked_ids,
                   now, revokeCalls,
                   checked, log>>

BuildIntent == \E dev \in Devs(1) : Built(IntentMandates(keys, nextId, now, dev), dev)

BuildPayment == \E dev \in Devs(3) : Built(PaymentMandates(keys, nextId, now, dev), dev)

BuildNettingPayment ==
    \E dev \in Devs(4) : Built(NettingMandates(keys, nextId, now, dev), dev)

\* the caller drops the record and starts another one
NewBatch ==
    /\ batch # <<>>
    /\ batch' = <<>>
    /\ signedAs' = <<>>
    /\ result' = "none"
    /\ UNCHANGED <<keys, nextKey, trusted_issuers, transactions, revoked_ids,
                   now, nextId, edits, revokeCalls,
                   checked, log>>

\* one field of a mandate given another value by hand
BodyFields ==
    {"@context", "id", "type", "issuer", "issuer.id", "expirationDate",
     "expirationDate.empty", "prev_mandate_id", "merchant_id",
     "details.amount", "details.currency", "total.value", "total.currency",
     "payment_details.amount", "payment_details.currency"}
ProofFields == {"proof", "proof.value", "verificationMethod", "proofValue"}

OtherOf(v, a, b) == IF v = a THEN b ELSE a

AlterField(m, f) ==
    CASE f = "none" -> m
      [] f = "@context" -> [m EXCEPT !.context = UnknownContext]
      [] f = "id" -> [m EXCEPT !.id = 0]
      [] f = "type" -> [m EXCEPT !.type = Absent]
      [] f = "issuer" -> [m EXCEPT !.issuer = OtherOf(@, Rogue, sending_signer)]
      [] f = "issuer.id" -> [m EXCEPT !.issuer = IssuerObject]
      [] f = "expirationDate" -> [m EXCEPT !.expirationDate = OtherOf(@, BadExp, NoExp)]
      [] f = "expirationDate.empty" -> [m EXCEPT !.expirationDate = EmptyExp]
      [] f = "prev_mandate_id" -> [m EXCEPT !.prev_mandate_id = OtherOf(@, 0, MaxId)]
      [] f = "merchant_id" -> [m EXCEPT !.merchant_id = OtherOf(@, "m2", "merchant")]
      [] f = "details.amount" -> [m EXCEPT !.details.amount = OtherOf(@, 2, 1)]
      [] f = "details.currency" -> [m EXCEPT !.details.currency = OtherOf(@, "USD", "EUR")]
      [] f = "total.value" -> [m EXCEPT !.total.value = OtherOf(@, 2, 1)]
      [] f = "total.currency" -> [m EXCEPT !.total.currency = OtherOf(@, "USD", "EUR")]
      [] f = "payment_details.amount" -> [m EXCEPT !.payment_details.amount = OtherOf(@, 2, 1)]
      [] f = "payment_details.currency" -> [m EXCEPT !.payment_details.currency = OtherOf(@, "USD", "EUR")]
      [] f = "proof" -> [m EXCEPT !.proof = NoProof]
      [] f = "proof.value" -> [m EXCEPT !.proof = ScalarProof]
      [] f = "verificationMethod" ->
            [m EXCEPT !.proof.verificationMethod =
                IF Len(@) = 2 THEN <<@[1]>> ELSE <<>>]
      [] f = "proofValue" -> [m EXCEPT !.proof.proofValue.key = 0]

RECURSIVE AlterFields(_, _)
AlterFields(m, fs) ==
    IF fs = {} THEN m
    ELSE LET f == CHOOSE x \in fs : TRUE
         IN  AlterFields(AlterField(m, f), fs \ {f})

\* the caller changes a field of mandate i and keeps its proof
Tamper ==
    \E i \in 1..Len(batch), f \in BodyFields \cup ProofFields :
        /\ edits < MaxEdits
        /\ batch' = [batch EXCEPT ![i] = AlterField(@, f)]
        /\ edits' = edits + 1
        /\ result' = "none"
        /\ UNCHANGED <<keys, nextKey, trusted_issuers, transactions, revoked_ids,
                       signedAs, now, nextId, revokeCalls,
                       checked, log>>

\* the fields of a body a caller signs by hand
SignFields ==
    {"id", "type", "issuer", "expirationDate", "expirationDate.empty",
     "prev_mandate_id"}

\* the caller changes up to MaxAltered fields of the body of mandate i and
\* attaches the proof MandateSigner(key_manager, s).sign returns for it
SignAltered ==
    \E i \in 1..Len(batch), fs \in SUBSET SignFields, s \in DOMAIN keys :
        /\ edits < MaxEdits
        /\ Cardinality(fs) <= MaxAltered
        /\ ~canonicalize_raises(batch[i])
        /\ LET body == AlterFields(batch[i], fs)
               m == [body EXCEPT !.proof = sign(keys, s, body)]
           IN  /\ fs = {} \/ s = IF body.issuer \in DOMAIN keys
                                 THEN body.issuer ELSE sending_signer
               /\ batch' = [batch EXCEPT ![i] = m]
               /\ signedAs' = [signedAs EXCEPT ![i] = m]
        /\ edits' = edits + 1
        /\ result' = "none"
        /\ UNCHANGED <<keys, nextKey, trusted_issuers, transactions, revoked_ids,
                       now, nextId, revokeCalls,
                       checked, log>>

\* add_transaction appending before it has checked anything
Submit_append_first ==
    /\ Len(transactions) < MaxTxns
    /\ result' = add_transaction_outcome(batch, trusted_issuers, keys, revoked_ids, now)
    /\ transactions' = Append(transactions, batch)
    /\ UNCHANGED <<keys, nextKey, trusted_issuers, revoked_ids, batch, signedAs,
                   now, nextId, edits, revokeCalls,
                   checked, log>>

\* CryptoLedger.add_transaction(txn_record) with the caller's mandates
Submit ==
    /\ Len(transactions) < MaxTxns
    /\ LET r == add_transaction_outcome(batch, trusted_issuers, keys, revoked_ids, now)
       IN  /\ result' = r
           /\ transactions' = IF r = "Accepted" THEN Append(transactions, batch)
                              ELSE transactions
    /\ UNCHANGED <<keys, nextKey, trusted_issuers, revoked_ids, batch, signedAs,
                   now, nextId, edits, revokeCalls,
                   checked, log>>

\* a caller asks the ledger to revoke a mandate id.  CryptoLedger defines no
\* method that adds to revoked_ids: the call raises AttributeError and the
\* ledger is as before
Revoke ==
    \E id \in {batch[i].id : i \in 1..Len(batch)} \ {0} :
        /\ edits < MaxEdits
        /\ edits' = edits + 1
        /\ revokeCalls' = revokeCalls \cup {id}
        /\ result' = "none"
        /\ UNCHANGED <<keys, nextKey, trusted_issuers, transactions, revoked_ids,
                       batch, signedAs, now, nextId,
                       checked, log>>

\* key_generate_issuer keeping the key of an issuer that has one (setdefault)
KeyGenerate_keeps_old ==
    \E issuer_id \in {sending_signer, netting_signer, Rogue} :
        /\ nextKey <= Len(MainIssuers) + MaxKeyGens
        /\ keys' = [i \in DOMAIN keys \cup {issuer_id} |->
                       IF i \in DOMAIN keys THEN keys[i] ELSE nextKey]
        /\ nextKey' = nextKey + 1
        /\ result' = "none"
        /\ UNCHANGED <<trusted_issuers, transactions, revoked_ids, batch, signedAs,
                       now, nextId, edits, revokeCalls,
                       checked, log>>

\* KeyManager.key_generate_issuer(issuer_id)
KeyGenerate ==
    \E issuer_id \in {sending_signer, netting_signer, Rogue} :
        /\ nextKey <= Len(MainIssuers) + MaxKeyGens
        /\ keys' = [i \in DOMAIN keys \cup {issuer_id} |->
                       IF i = issuer_id THEN nextKey ELSE keys[i]]
        /\ nextKey' = nextKey + 1
        /\ result' = "none"
        /\ UNCHANGED <<trusted_issuers, transactions, revoked_ids, batch, signedAs,
                       now, nextId, edits, revokeCalls,
                       checked, log>>

\* the clock advances
Tick ==
    /\ now < MaxTime
    /\ now' = now + 1
    /\ result' = "none"
    /\ UNCHANGED <<keys, nextKey, trusted_issuers, transactions, revoked_ids,
                   batch, signedAs, nextId, edits, revokeCalls,
                   checked, log>>

Next ==
    \/ BuildIntent
    \/ BuildPayment
    \/ BuildNettingPayment
    \/ NewBatch
    \/ Tamper
    \/ SignAltered
    \/ Submit
    \/ Revoke
    \/ KeyGenerate
    \/ Tick

Spec == Init /\ [][Next]_vars

\* ------------------------------------------------------------- ledger operations
\* ledger_check_consistency comparing the amounts only
ledger_check_consistency_amounts_only(mandates) ==
    IF Len(mandates) >= 3 /\ mandates[1].type = Absent THEN "Raised"
    ELSE IF Len(mandates) >= 3 /\ mandates[1].type = "IntentMandate"
    THEN LET amount_intent == mandates[1].details.amount
             total_cart == mandates[2].total.value
             amount_payment == mandates[3].payment_details.amount
         IN  IF 0 \in {amount_intent, total_cart, amount_payment}
             THEN "inconsistent"
             ELSE IF amount_intent = total_cart /\ total_cart = amount_payment
                  THEN "consistent" ELSE "inconsistent"
    ELSE "consistent"

\* CryptoLedger.ledger_check_consistency(txn) on txn["mandates"]:
\* "consistent" is the return of True, "inconsistent" the return of False,
\* "Raised" the KeyError of mandates[0]["type"], which is read before the try
\* block.  Reading a key that is missing raises inside the try block.
ledger_check_consistency(mandates) ==
    IF Len(mandates) >= 3 /\ mandates[1].type = Absent THEN "Raised"
    ELSE IF Len(mandates) >= 3 /\ mandates[1].type = "IntentMandate"
    THEN LET intent_subject == mandates[1]
             cart_subject == mandates[2]
             payment_subject == mandates[3]
             amount_intent == intent_subject.details.amount
             currency_intent == intent_subject.details.currency
             receiver_intent == intent_subject.merchant_id
             total_cart == cart_subject.total.value
             currency_cart == cart_subject.total.currency
             receiver_cart == cart_subject.merchant_id
             amount_payment == payment_subject.payment_details.amount
             currency_payment == payment_subject.payment_details.currency
             receiver_payment == payment_subject.merchant_id
         IN  IF \/ 0 \in {amount_intent, total_cart, amount_payment}
                \/ Absent \in {currency_intent, receiver_intent, currency_cart,
                               receiver_cart, currency_payment, receiver_payment}
             THEN "inconsistent"
             ELSE IF /\ amount_intent = total_cart /\ total_cart = amount_payment
                     /\ currency_intent = currency_cart
                     /\ currency_cart = currency_payment
                     /\ receiver_intent = receiver_cart
                     /\ receiver_cart = receiver_payment
                  THEN "consistent" ELSE "inconsistent"
    ELSE "consistent"

\* the batches a caller can hand to the re-check: the record it holds and
\* the records of the ledger
Checkable == {batch} \cup {transactions[i] : i \in 1..Len(transactions)}

\* a call of ledger.ledger_check_consistency(txn)
Recheck ==
    \E mandates \in Checkable :
        /\ checked' = [NoCheck EXCEPT !.op = "recheck", !.on = mandates,
                                      !.value = ledger_check_consistency(mandates)]
        /\ result' = "none"
        /\ UNCHANGED <<keys, nextKey, trusted_issuers, transactions, revoked_ids,
                       batch, signedAs, now, nextId, edits, revokeCalls, log>>

\* the number of records of txns that re-check as v
RECURSIVE CountChecked(_, _)
CountChecked(txns, v) ==
    IF txns = <<>> THEN 0
    ELSE CountChecked(Tail(txns), v)
         + (IF ledger_check_consistency(Head(txns)) = v THEN 1 ELSE 0)

\* transaction_report raises: m["type"][-1] of a mandate without a type
report_raises(txns) ==
    \E i \in 1..Len(txns) : \E k \in 1..Len(txns[i]) : txns[i][k].type = Absent

\* CryptoLedger.transaction_report(): the two counts of its summary
transaction_report ==
    /\ checked' = IF report_raises(transactions)
                  THEN [NoCheck EXCEPT !.op = "report", !.value = "Raised"]
                  ELSE [NoCheck EXCEPT !.op = "report", !.value = "printed",
                            !.consistent = CountChecked(transactions, "consistent"),
                            !.inconsistent = CountChecked(transactions, "inconsistent")]
    /\ result' = "none"
    /\ UNCHANGED <<keys, nextKey, trusted_issuers, transactions, revoked_ids,
                   batch, signedAs, now, nextId, edits, revokeCalls, log>>

\* CryptoLedger.save_to_file(path, txn_record): the delimiter line and the
\* JSON text of the record are appended to the file
save_to_file(file, mandates) == Append(file, mandates)

\* transaction_commit writing the record to the file before it asks the ledger
transaction_commit_save_first ==
    \E written \in BOOLEAN :
        /\ Len(transactions) < MaxTxns
        /\ LET r == add_transaction_outcome(batch, trusted_issuers, keys,
                                            revoked_ids, now)
           IN  /\ result' = r
               /\ transactions' = IF r = "Accepted" THEN Append(transactions, batch)
                                  ELSE transactions
               /\ log' = IF written THEN Append(log, batch) ELSE log
        /\ UNCHANGED <<keys, nextKey, trusted_issuers, revoked_ids, batch, signedAs,
                       now, nextId, edits, revokeCalls, checked>>

\* transaction_commit revoking the ids of a batch the ledger rejected
transaction_commit_revoking ==
    \E written \in BOOLEAN :
        /\ Len(transactions) < MaxTxns
        /\ LET r == add_transaction_outcome(batch, trusted_issuers, keys,
                                            revoked_ids, now)
           IN  /\ result' = r
               /\ r # "Accepted" => written
               /\ transactions' = IF r = "Accepted" THEN Append(transactions, batch)
                                  ELSE transactions
               /\ log' = IF r = "Accepted" /\ written THEN Append(log, batch)
                         ELSE log
               /\ revoked_ids' = IF r = "Accepted" THEN revoked_ids
                                 ELSE revoked_ids \cup
                                      {batch[i].id : i \in 1..Len(batch)}
        /\ UNCHANGED <<keys, nextKey, trusted_issuers, batch, signedAs,
                       now, nextId, edits, revokeCalls, checked>>

\* AgentPrompt.transaction_commit(txn) and the end of process_payment:
\* add_transaction, then save_to_file when it returned True.  save_to_file
\* prints an error of the file system and returns, so the entry may be missing.
transaction_commit ==
    \E written \in BOOLEAN :
        /\ Len(transactions) < MaxTxns
        /\ LET r == add_transaction_outcome(batch, trusted_issuers, keys,
                                            revoked_ids, now)
           IN  /\ result' = r
               /\ r # "Accepted" => written
               /\ transactions' = IF r = "Accepted" THEN Append(transactions, batch)
                                  ELSE transactions
               /\ log' = IF r = "Accepted" /\ written THEN save_to_file(log, batch)
                         ELSE log
        /\ UNCHANGED <<keys, nextKey, trusted_issuers, revoked_ids, batch, signedAs,
                       now, nextId, edits, revokeCalls, checked>>

\* load_ledger_from_file emptying the ledger before it reads the file
load_ledger_from_file_reset ==
    /\ log # <<>>
    /\ transactions' = log
    /\ result' = "none"
    /\ UNCHANGED <<keys, nextKey, trusted_issuers, revoked_ids, batch, signedAs,
                   now, nextId, edits, revokeCalls, checked, log>>

\* json.dumps writes a string of the record with its characters: the text of
\* a record with a string that holds the delimiter line holds that line
TextHasDelimiter(mandates) ==
    \E i \in 1..Len(mandates) : mandates[i].merchant_id = Delimiter

\* the records load_ledger_from_file gets out of the file: content.split cuts
\* the text at every delimiter line, also inside the text of a record; the
\* pieces of a record cut that way fail json.loads or do not begin with "{"
\* and are skipped.  A record of strings, numbers, lists and nulls that is
\* not cut is given back by json.loads as it was.
RECURSIVE ParsedEntries(_)
ParsedEntries(file) ==
    IF file = <<>> THEN <<>>
    ELSE IF TextHasDelimiter(Head(file)) THEN ParsedEntries(Tail(file))
    ELSE <<Head(file)>> \o ParsedEntries(Tail(file))

\* load_ledger_from_file(path, ledger): every entry that parses is appended
\* to ledger.transactions, unverified
load_ledger_from_file ==
    /\ log # <<>>
    /\ Len(transactions) + Len(ParsedEntries(log)) <= MaxTxns
    /\ transactions' = transactions \o ParsedEntries(log)
    /\ checked' = [NoCheck EXCEPT !.op = "replay", !.on = log, !.value = "loaded"]
    /\ result' = "none"
    /\ UNCHANGED <<keys, nextKey, trusted_issuers, revoked_ids, batch, signedAs,
                   now, nextId, edits, revokeCalls, log>>

\* the mandates of the ledger's records, in the order the loops of
\* process_refund and process_fraud_flag visit them
RECURSIVE StoredMandates(_)
StoredMandates(txns) ==
    IF txns = <<>> THEN <<>> ELSE Head(txns) \o StoredMandates(Tail(txns))

\* the first mandate of ms with the id vc_id (of the type mandate_type, unless
\* that is Absent); <<>> when there is none
RECURSIVE FindMandate(_, _, _)
FindMandate(ms, vc_id, mandate_type) ==
    IF ms = <<>> THEN <<>>
    ELSE IF /\ Head(ms).id = vc_id
            /\ mandate_type = Absent \/ Head(ms).type = mandate_type
         THEN <<Head(ms)>>
         ELSE FindMandate(Tail(ms), vc_id, mandate_type)

\* MandateFactory.refund: the RefundMandate
refund(ks, issuer_id, id, t, prev_mandate_id, merchant_id) ==
    mandate_wrap_vc(ks, issuer_id, id, t, "RefundMandate",
        [prev_mandate_id |-> prev_mandate_id, merchant_id |-> merchant_id,
         details |-> NoTerms, total |-> NoTotal, payment_details |-> NoTerms],
        NoExp)

\* MandateFactory.fraud_flag: the FraudFlag
fraud_flag(ks, issuer_id, id, t, prev_mandate_id, merchant_id) ==
    mandate_wrap_vc(ks, issuer_id, id, t, "FraudFlag",
        [prev_mandate_id |-> prev_mandate_id, merchant_id |-> merchant_id,
         details |-> NoTerms, total |-> NoTotal, payment_details |-> NoTerms],
        NoExp)

\* subject.get("merchant_id", " ")
MerchantOf(m) == IF m.merchant_id = Absent THEN " " ELSE m.merchant_id

\* process_refund looking for a stored mandate of any type
process_refund_any_type ==
    \E vc_id \in 0..MaxId :
        LET found == IF vc_id = 0 THEN <<>>
                     ELSE FindMandate(StoredMandates(transactions), vc_id, Absent)
        IN  /\ batch = <<>>
            /\ IF found # <<>>
               THEN /\ nextId <= MaxId
                    /\ batch' = <<refund(keys, confirmation_signer, nextId, now,
                                         found[1].id, MerchantOf(found[1]))>>
                    /\ nextId' = nextId + 1
                    /\ checked' = [NoCheck EXCEPT !.op = "refund", !.on = <<vc_id>>,
                                                  !.value = "built"]
               ELSE /\ batch' = batch
                    /\ nextId' = nextId
                    /\ checked' = [NoCheck EXCEPT !.op = "refund", !.on = <<vc_id>>,
                                                  !.value = "ValueError"]
            /\ signedAs' = batch'
            /\ result' = "none"
            /\ UNCHANGED <<keys, nextKey, trusted_issuers, transactions, revoked_ids,
                           now, edits, revokeCalls, log>>

\* PaymentProcessor.process_refund(vc_id, ...): the record it returns, or the
\* ValueError it raises for a vc_id that does not start with "urn:uuid:"
\* (vc_id 0 here) or that is the id of no stored PaymentMandate.  The original
\* id is passed to the factory both as original_payment_id and as
\* prev_mandate_id.
process_refund ==
    \E vc_id \in 0..MaxId :
        LET found == IF vc_id = 0 THEN <<>>
                     ELSE FindMandate(StoredMandates(transactions), vc_id,
                                      "PaymentMandate")
        IN  /\ batch = <<>>
            /\ IF found # <<>>
               THEN /\ nextId <= MaxId
                    /\ batch' = <<refund(keys, confirmation_signer, nextId, now,
                                         found[1].id, MerchantOf(found[1]))>>
                    /\ nextId' = nextId + 1
                    /\ checked' = [NoCheck EXCEPT !.op = "refund", !.on = <<vc_id>>,
                                                  !.value = "built"]
               ELSE /\ batch' = batch
                    /\ nextId' = nextId
                    /\ checked' = [NoCheck EXCEPT !.op = "refund", !.on = <<vc_id>>,
                                                  !.value = "ValueError"]
            /\ signedAs' = batch'
            /\ result' = "none"
            /\ UNCHANGED <<keys, nextKey, trusted_issuers, transactions, revoked_ids,
                           now, edits, revokeCalls, log>>

\* PaymentProcessor.process_fraud_flag(flagged_vc_id, ...): the record it
\* returns.  It raises ValueError when no stored mandate has the id.
process_fraud_flag ==
    \E flagged_vc_id \in 1..MaxId :
        LET found == FindMandate(StoredMandates(transactions), flagged_vc_id,
                                 Absent)
        IN  /\ found # <<>>
            /\ Built(<<fraud_flag(keys, confirmation_signer, nextId, now,
                                  found[1].id, MerchantOf(found[1]))>>, NoDev)

\* the caller hands over a record without the last of its mandates
Truncate ==
    /\ Len(batch) >= 2
    /\ edits < MaxEdits
    /\ batch' = SubSeq(batch, 1, Len(batch) - 1)
    /\ signedAs' = SubSeq(signedAs, 1, Len(signedAs) - 1)
    /\ edits' = edits + 1
    /\ result' = "none"
    /\ UNCHANGED <<keys, nextKey, trusted_issuers, transactions, revoked_ids,
                   now, nextId, revokeCalls, checked, log>>

\* the operations on a ledger: the command loop with the report, the
\* re-check, the refund and the fraud flag, and the replay of the ledger file
NextLedgerOps ==
    \/ BuildIntent
    \/ BuildPayment
    \/ BuildNettingPayment
    \/ NewBatch
    \/ Tamper
    \/ Truncate
    \/ transaction_commit
    \/ Revoke
    \/ Recheck
    \/ transaction_report
    \/ process_refund
    \/ process_fraud_flag
    \/ load_ledger_from_file

SpecLedgerOps == Init /\ [][NextLedgerOps]_vars

\* ------------------------------------------------------------- key operations
\* the segments a reference is made of
Segments == {sending_signer, Rogue, "keys-1"}

\* the references with up to MaxSegments segments
References == UNION {[1..n -> Segments] : n \in 0..MaxSegments}

\* a call of key_manager.key_resolve_verification_method(vm_uri)
Resolve ==
    \E vm \in References :
        /\ LET r == key_resolve_verification_method(keys, vm)
           IN  checked' = [NoCheck EXCEPT !.op = "resolve", !.on = vm,
                                          !.value = r.error, !.out = r.pub]
        /\ result' = "none"
        /\ UNCHANGED <<keys, nextKey, trusted_issuers, transactions, revoked_ids,
                       batch, signedAs, now, nextId, edits, revokeCalls, log>>

\* the operations on the key manager
NextKeys ==
    \/ KeyGenerate
    \/ Resolve

SpecKeys == Init /\ [][NextKeys]_vars

\* ------------------------------------------------------------- claims
Mandates == {batch[i] : i \in 1..Len(batch)}
Submitted == result # "none"
PerMandateReasons == {"UntrustedIssuer", "Expired", "Revoked", "InvalidSignature"}
Body(m) == [m EXCEPT !.proof = NoProof]

\* the issuer named by the proof's verificationMethod, Absent when there is none
VmIssuer(m) ==
    IF m.proof.present /\ m.proof.record /\ Len(m.proof.verificationMethod) >= 2
    THEN m.proof.verificationMethod[1] ELSE Absent

\* the four per-mandate conditions, stated on the data
IssuerInTrustRoot(m) == m.issuer \in DOMAIN trusted_issuers

ResolvedKeyMatches(m) ==
    /\ IssuerInTrustRoot(m)
    /\ VmIssuer(m) \in DOMAIN keys
    /\ trusted_issuers[m.issuer] = key_export_public_keys(keys)[VmIssuer(m)]

Unexpired(m) ==
    \/ m.expirationDate = NoExp
    \/ m.expirationDate # BadExp /\ now < m.expirationDate

Unrevoked(m) == m.id # 0 /\ m.id \notin revoked_ids

SignatureValid(m) ==
    /\ m.context = LocalContexts
    /\ VmIssuer(m) \in DOMAIN keys
    /\ m.proof.proofValue.key = keys[VmIssuer(m)]
    /\ m.proof.proofValue.image = json_canonicalize_vc_for_signing(m)

PassesAllFour(m) ==
    ResolvedKeyMatches(m) /\ Unexpired(m) /\ Unrevoked(m) /\ SignatureValid(m)

PrefixPasses(i) ==
    FirstFailure(SubSeq(batch, 1, i - 1), trusted_issuers, keys, revoked_ids, now) = "ok"

\* C1: a call of add_transaction that does not accept leaves the transaction
\* sequence as it was; one that accepts appends exactly the submitted batch.
C1_AppendOnlyOnAccept ==
    [][Submitted' =>
          IF result' = "Accepted"
          THEN transactions' = Append(transactions, batch)
          ELSE transactions' = transactions]_vars

C1_Witness == result = "Accepted" /\ Len(transactions) = 2 /\ Len(batch) >= 3

\* C2: when add_transaction accepts a batch, every mandate of it passes the
\* four per-mandate checks at that moment (issuer in the trust root with the
\* matching key, not expired, id not revoked, signature valid), and a batch
\* with a mandate that does not pass one of them is rejected by a per-mandate
\* check.
C2_AllFourOrRejected ==
    Submitted =>
        /\ result = "Accepted" => \A m \in Mandates : PassesAllFour(m)
        /\ (\E m \in Mandates : ~PassesAllFour(m)) => result \in PerMandateReasons

\* C3: a batch with a mandate whose issuer is not in the trust root, or whose
\* verificationMethod resolves to another key than the trust root registers
\* for the issuer field, is rejected by a per-mandate check, also when the
\* signature verifies under the resolved key.
C3_UntrustedRejected ==
    ( /\ Submitted
      /\ \E m \in Mandates :
            \/ ~IssuerInTrustRoot(m)
            \/ VmIssuer(m) \in DOMAIN keys /\ ~ResolvedKeyMatches(m) )
        => result \in PerMandateReasons

\* C4: an accepted batch is linked pair by pair, and a batch whose mandates
\* all pass the per-mandate checks and that has a pair that does not link is
\* rejected as ChainBroken.
C4_ChainBrokenRejected ==
    /\ result = "Accepted" => ChainMismatches(batch) = {}
    /\ ( /\ Submitted
         /\ PrefixPasses(Len(batch) + 1)
         /\ ChainMismatches(batch) # {} ) => result = "ChainBroken"

\* C5: an accepted batch of the payment shape (intent, cart, payment or
\* intent, cart, netting, payment) has the same amount, currency and receiver
\* in its intent, its cart and its PaymentMandate.
PaymentShape(ms) ==
    \/ /\ Len(ms) = 3
       /\ <<ms[1].type, ms[2].type, ms[3].type>> =
              <<"IntentMandate", "CartMandate", "PaymentMandate">>
    \/ /\ Len(ms) = 4
       /\ <<ms[1].type, ms[2].type, ms[3].type, ms[4].type>> =
              <<"IntentMandate", "CartMandate", "NettingMandate", "PaymentMandate">>

C5_AcceptedTermsAgree ==
    (result = "Accepted" /\ PaymentShape(batch)) =>
        LET intent == batch[1]
            cart == batch[2]
            payment == batch[Len(batch)]
        IN  /\ intent.details.amount = cart.total.value
            /\ cart.total.value = payment.payment_details.amount
            /\ intent.details.currency = cart.total.currency
            /\ cart.total.currency = payment.payment_details.currency
            /\ intent.merchant_id = cart.merchant_id
            /\ cart.merchant_id = payment.merchant_id

\* C6: a signed mandate of which a field other than the proof was altered
\* after signing does not verify any more.
C6_AlteredBodyFailsVerify ==
    \A i \in 1..Len(batch) :
        ( /\ batch[i].proof = signedAs[i].proof
          /\ Body(batch[i]) # Body(signedAs[i]) ) => ~verify(batch[i], keys)

C8_RevokedRejected ==
    Submitted =>
        \A i \in 1..Len(batch) :
            ( /\ batch[i].id \in revokeCalls
              /\ PrefixPasses(i)
              /\ ResolvedKeyMatches(batch[i])
              /\ Unexpired(batch[i]) ) => result = "Revoked"

\* C9: a mandate whose expirationDate is the current time or earlier keeps its
\* batch out, and the batch is rejected as Expired when that check is the
\* first to fail; a batch whose mandates all expire an hour from now is not
\* rejected as Expired.
C9_ExpiryIsStrict ==
    Submitted =>
        /\ \A i \in 1..Len(batch) :
              (batch[i].expirationDate \in 1..now) =>
                  /\ result # "Accepted"
                  /\ (PrefixPasses(i) /\ ResolvedKeyMatches(batch[i]))
                        => result = "Expired"
        /\ (\A m \in Mandates : m.expirationDate = now + HourTicks)
              => result # "Expired"

C9_Witness ==
    /\ result = "Expired"
    /\ \E m \in Mandates : m.expirationDate = now
    /\ \A m \in Mandates : m.expirationDate >= now

\* C10: no batch and no mandate id is recorded twice in the transaction
\* sequence, however often a batch is submitted.
C10_NoDoubleAppend ==
    \A i, j \in 1..Len(transactions) :
        i < j =>
            /\ transactions[i] # transactions[j]
            /\ {transactions[i][k].id : k \in 1..Len(transactions[i])}
                   \cap {transactions[j][k].id : k \in 1..Len(transactions[j])} = {}

\* the first of the four per-mandate conditions that m does not meet
FirstUnmet(m) ==
    IF ~ResolvedKeyMatches(m) THEN "UntrustedIssuer"
    ELSE IF ~Unexpired(m) THEN "Expired"
    ELSE IF ~Unrevoked(m) THEN "Revoked"
    ELSE "InvalidSignature"

\* amount, currency and receiver of the intent, the cart and the payment
\* record (the last one) are all there and agree
TermsAgree(ms) ==
    LET intent == ms[1]
        cart == ms[2]
        payment == ms[Len(ms)]
    IN  /\ intent.details.amount # 0
        /\ intent.details.amount = cart.total.value
        /\ cart.total.value = payment.payment_details.amount
        /\ intent.details.currency # Absent
        /\ intent.details.currency = cart.total.currency
        /\ cart.total.currency = payment.payment_details.currency
        /\ intent.merchant_id # Absent
        /\ intent.merchant_id = cart.merchant_id
        /\ cart.merchant_id = payment.merchant_id

BusinessShape(ms) == Len(ms) >= 3 /\ ms[1].type = "IntentMandate"

\* the outcome the documented order of checks gives for the batch
OrderedOutcome ==
    IF batch = <<>> THEN "EmptyBatch"
    ELSE IF \E i \in 1..Len(batch) : ~PassesAllFour(batch[i])
    THEN LET i == CHOOSE k \in 1..Len(batch) :
                     /\ ~PassesAllFour(batch[k])
                     /\ \A j \in 1..(k - 1) : PassesAllFour(batch[j])
         IN  FirstUnmet(batch[i])
    ELSE IF ChainMismatches(batch) # {} THEN "ChainBroken"
    ELSE IF BusinessShape(batch) /\ ~TermsAgree(batch) THEN "InconsistentTerms"
    ELSE "Accepted"

\* C11: add_transaction runs its checks in the order empty batch, then per
\* mandate trust, expiration, revocation, signature, then chain linkage, then
\* business invariants, and its outcome is the reason of the first check in
\* this order that the batch does not pass.
C11_FirstFailureInOrder == Submitted => result = OrderedOutcome

\* C12: add_transaction always ends with an acceptance or a rejection, never
\* with an escaping exception, and a payload path missing in the business
\* invariant step is the rejection InconsistentTerms.
C12_NoEscapingException ==
    /\ result # "Raised"
    /\ ( /\ Submitted
         /\ PrefixPasses(Len(batch) + 1)
         /\ ChainMismatches(batch) = {}
         /\ BusinessShape(batch)
         /\ \/ batch[1].details.amount = 0
            \/ batch[2].total.value = 0
            \/ batch[3].payment_details.amount = 0 ) => result = "InconsistentTerms"

\* C14: a batch that passes the empty, per-mandate and chain checks is
\* accepted whatever its terms when it has fewer than three records or its
\* first record is no IntentMandate; otherwise the business invariant check
\* decides, and it rejects an intent and a cart that disagree.
C14_BusinessCheckOnlyOnShape ==
    ( /\ Submitted
      /\ batch # <<>>
      /\ PrefixPasses(Len(batch) + 1)
      /\ ChainMismatches(batch) = {} )
        => IF BusinessShape(batch)
           THEN /\ result \in {"Accepted", "InconsistentTerms"}
                /\ ( \/ batch[1].details.amount # batch[2].total.value
                     \/ batch[1].details.currency # batch[2].total.currency
                     \/ batch[1].merchant_id # batch[2].merchant_id )
                      => result = "InconsistentTerms"
           ELSE result = "Accepted"

\* C15: add_transaction of a record with no mandates is rejected as
\* EmptyBatch and appends nothing.
C15_EmptyBatchRejected ==
    [][(Submitted' /\ batch = <<>>)
          => (result' = "EmptyBatch" /\ transactions' = transactions)]_vars

C15_Witness == result = "EmptyBatch" /\ batch = <<>> /\ Len(transactions) = 1

\* C18: verify never raises, whatever the mandate.
C18_VerifyNeverRaises == \A m \in Mandates : ~verify_raises(m)

\* C20: a call of key_generate_issuer leaves one key per issuer: the new one
\* for that issuer, which signer, encoded public key, export and resolution
\* all give and which differs from the one before, and the keys of the other
\* issuers as they were.
C20_GenerateReplacesKey ==
    [][nextKey' # nextKey =>
          \E issuer_id \in DOMAIN keys' :
              /\ \A j \in DOMAIN keys : j # issuer_id => keys'[j] = keys[j]
              /\ DOMAIN keys' = DOMAIN keys \cup {issuer_id}
              /\ \A j \in DOMAIN keys : key_get_signer(keys', issuer_id) # keys[j]
              /\ key_get_pubkey_b58(keys', issuer_id)
                     = b58encode(VerifyKeyBytes(key_get_signer(keys', issuer_id)))
              /\ key_export_public_keys(keys')[issuer_id]
                     = key_get_pubkey_b58(keys', issuer_id)
              /\ \A j \in DOMAIN keys :
                     key_get_pubkey_b58(keys', issuer_id) # key_get_pubkey_b58(keys, j)
              /\ LET r == key_resolve_verification_method(keys', VmOf(issuer_id))
                 IN  ~r.raised /\ r.pub = VerifyKeyBytes(key_get_signer(keys', issuer_id))
    ]_vars

C20_Witness ==
    /\ keys[sending_signer] # MainKeys[sending_signer]
    /\ \A j \in DOMAIN MainKeys : j # sending_signer => keys[j] = MainKeys[j]

\* the business-invariant step of add_transaction (lines 155-185) on its own:
\* what it makes of the mandates once the checks before it have passed
BusinessStep(ms) ==
    IF Len(ms) >= 3 /\ ms[1].type = Absent THEN "Raised"
    ELSE IF Len(ms) >= 3 /\ ms[1].type = "IntentMandate" /\ ~TermsConsistent(ms)
         THEN "inconsistent"
    ELSE "consistent"

\* C13: the re-check ledger_check_consistency gives, for every batch, what the
\* business-invariant step of add_transaction gives for the same mandates;
\* a batch that add_transaction accepted re-checks as consistent, and one it
\* rejected for its terms as inconsistent; every stored batch re-checks as
\* consistent; a re-check of the same mandates gives the same value again,
\* and a call of the re-check changes no state of the ledger.
C13_RecheckEqualsBusinessStep ==
    /\ [](/\ \A ms \in Checkable : ledger_check_consistency(ms) = BusinessStep(ms)
          /\ result = "Accepted" => ledger_check_consistency(batch) = "consistent"
          /\ result = "InconsistentTerms" =>
                 ledger_check_consistency(batch) = "inconsistent"
          /\ \A i \in 1..Len(transactions) :
                 ledger_check_consistency(transactions[i]) = "consistent"
          /\ checked.op = "recheck" => checked.value = BusinessStep(checked.on))
    /\ [][/\ (checked.op = "recheck" /\ checked'.op = "recheck"
              /\ checked'.on = checked.on) => checked'.value = checked.value
          /\ (checked'.op = "recheck" /\ checked' # checked) =>
                 UNCHANGED <<transactions, trusted_issuers, revoked_ids, keys,
                             log, batch>>]_vars

\* C13 witness: a stored batch of three mandates or more has been re-checked
C13_Witness ==
    /\ checked.op = "recheck"
    /\ transactions # <<>>
    /\ checked.on = transactions[1]
    /\ Len(checked.on) >= 3
    /\ checked.value = "consistent"

\* C16: the transaction sequence is append-only: no step of submit, revoke,
\* report, re-check, refund construction, fraud-flag construction or log
\* replay makes it shorter, and every batch in it keeps its position and
\* its content.
C16_AppendOnly ==
    [][/\ Len(transactions') >= Len(transactions)
       /\ \A i \in 1..Len(transactions) : transactions'[i] = transactions[i]]_vars

\* C16 witness: two batches stored, the second by a replay of the file, a
\* report printed and a fraud flag constructed from a stored mandate
C16_Witness ==
    /\ Len(transactions) = 2
    /\ Len(log) = 1
    /\ transactions[2] = log[1]
    /\ transactions[1] # transactions[2]
    /\ checked.op = "report"
    /\ Len(batch) = 1
    /\ batch[1].type = "FraudFlag"

\* C17: a step of submit, of the re-check or of the report leaves the trust
\* root, the revoked ids and the key registry as they were, whether the batch
\* was accepted or rejected.
C17_VerificationFrame ==
    [][(Submitted' \/ checked' # checked) =>
           UNCHANGED <<trusted_issuers, revoked_ids, keys>>]_vars

\* C17 witness: a batch has been rejected after one was accepted and reported
C17_Witness ==
    /\ Submitted
    /\ result # "Accepted"
    /\ batch # <<>>
    /\ checked.op = "report"
    /\ transactions # <<>>

\* C19: every stored batch has exactly 1, 3 or 4 mandates, and submit does
\* not accept a batch of 2 mandates or of 5 or more.
C19_BatchSizes ==
    /\ \A i \in 1..Len(transactions) : Len(transactions[i]) \in {1, 3, 4}
    /\ (Submitted /\ Len(batch) \notin {1, 3, 4}) => result # "Accepted"

\* C21: key_resolve_verification_method takes the part of the reference before
\* its first '#' as the issuer and returns that issuer's current public key;
\* it fails with ValueError (MalformedReference) for a reference without '#'
\* and with KeyError (UnknownIssuer) for an issuer that is not registered, and
\* a call leaves the registry as it was.
C21_ResolveContract ==
    [][(checked'.op = "resolve" /\ checked' # checked) =>
           LET vm == checked'.on
           IN  /\ keys' = keys
               /\ nextKey' = nextKey
               /\ Len(vm) < 2 => checked'.value = "ValueError"
               /\ (Len(vm) >= 2 /\ vm[1] \notin DOMAIN keys) =>
                      checked'.value = "KeyError"
               /\ (Len(vm) >= 2 /\ vm[1] \in DOMAIN keys) =>
                      /\ checked'.value = "none"
                      /\ checked'.out = VerifyKeyBytes(keys[vm[1]])]_vars

\* C21 witness: a reference with two '#' has been resolved to the key that
\* was generated last for its issuer
C21_Witness ==
    /\ checked.op = "resolve"
    /\ Len(checked.on) = 3
    /\ checked.on[1] = sending_signer
    /\ keys[sending_signer] # MainKeys[sending_signer]
    /\ checked.value = "none"
    /\ checked.out = VerifyKeyBytes(keys[sending_signer])

\* C22: canonicalisation is deterministic and injective on the signed
\* content: two records that are the same but for their proofs have the same
\* image, and two records that differ in a field other than the proof have
\* different images.
C22_CanonicalizeInjective ==
    \A i \in 1..Len(batch) :
        (~canonicalize_raises(batch[i]) /\ ~canonicalize_raises(signedAs[i])) =>
            ( Body(batch[i]) = Body(signedAs[i])
              <=> json_canonicalize_vc_for_signing(batch[i])
                    = json_canonicalize_vc_for_signing(signedAs[i]) )

\* s is t with some of its elements left out
RECURSIVE IsSubseq(_, _)
IsSubseq(s, t) ==
    IF s = <<>> THEN TRUE
    ELSE IF t = <<>> THEN FALSE
    ELSE IF Head(s) = Head(t) THEN IsSubseq(Tail(s), Tail(t))
    ELSE IsSubseq(s, Tail(t))

\* C23: the ledger file grows only by a batch that add_transaction has just
\* accepted and appended to the transaction sequence, so its entries are, in
\* their order, among the accepted batches; a rejected batch is not written;
\* an accepted batch stays in the transaction sequence when the write fails.
C23_LogOnlyAfterAccept ==
    /\ []IsSubseq(log, transactions)
    /\ [][/\ log' # log =>
                /\ result' = "Accepted"
                /\ log' = Append(log, batch)
                /\ transactions' = Append(transactions, batch)
          /\ (Submitted' /\ result' # "Accepted") => log' = log
          /\ (Submitted' /\ result' = "Accepted") =>
                transactions' = Append(transactions, batch)]_vars

\* C23 witness: a batch was accepted and written, the next one was accepted
\* and its write failed
C23_Witness ==
    /\ result = "Accepted"
    /\ Len(transactions) = 2
    /\ transactions[2] = batch
    /\ transactions[1] # transactions[2]
    /\ log = <<transactions[1]>>

\* C24: a mandate whose expirationDate is present and is no timestamp of the
\* form YYYY-MM-DDTHH:MM:SSZ (a string strptime cannot parse, the empty
\* string) keeps its batch out, and the batch is rejected as Expired when that
\* check is the first to fail; only a mandate without the field never expires.
C24_ExpiryFailsClosed ==
    Submitted =>
        \A i \in 1..Len(batch) :
            (batch[i].expirationDate \in {BadExp, EmptyExp}) =>
                /\ result # "Accepted"
                /\ (PrefixPasses(i) /\ ResolvedKeyMatches(batch[i]))
                      => result = "Expired"

\* C25: a batch with a mandate that has no id is not accepted, and it is
\* rejected as Revoked when the revocation check of that mandate is the first
\* check to fail, with nothing in the revoked-id set.
C25_NoIdIsRevoked ==
    Submitted =>
        \A i \in 1..Len(batch) :
            batch[i].id = 0 =>
                /\ result # "Accepted"
                /\ ( /\ PrefixPasses(i)
                     /\ ResolvedKeyMatches(batch[i])
                     /\ Unexpired(batch[i]) ) => result = "Revoked"

\* C25 witness: a batch was rejected as Revoked for a mandate without id
\* while no id was revoked
C25_Witness ==
    /\ result = "Revoked"
    /\ revoked_ids = {}
    /\ \E i \in 1..Len(batch) : batch[i].id = 0 /\ PrefixPasses(i)

\* the batches the payment flows assemble at time t with ids from id on
FlowBatches(id, t) ==
    {PaymentMandates(keys, id, t, NoDev), NettingMandates(keys, id, t, NoDev)}

\* the signers' keys are the keys of the trust root
KeysInTrustRoot ==
    \A k \in 1..Len(MainIssuers) :
        key_get_pubkey_b58(keys, MainIssuers[k]) = trusted_issuers[MainIssuers[k]]

\* C26: a batch that a payment flow assembled (intent, cart, payment, with or
\* without a netting record) with keys of the trust root has no prev on the
\* intent, every later prev_mandate_id equal to the id before it, and one
\* amount, currency and receiver at the paths the ledger reads; submitted
\* before its expiration an hour later and with none of its ids revoked, it
\* is accepted.
C26_FlowBatchAccepted ==
    \A id \in 1..MaxId, t \in 0..MaxTime :
        (batch \in FlowBatches(id, t) /\ KeysInTrustRoot) =>
            /\ batch[1].prev_mandate_id = 0
            /\ \A i \in 2..Len(batch) : batch[i].prev_mandate_id = batch[i - 1].id
            /\ LET last == batch[Len(batch)]
               IN  /\ batch[1].details.amount = batch[2].total.value
                   /\ batch[2].total.value = last.payment_details.amount
                   /\ batch[1].details.currency = batch[2].total.currency
                   /\ batch[2].total.currency = last.payment_details.currency
                   /\ batch[1].merchant_id = batch[2].merchant_id
                   /\ batch[2].merchant_id = last.merchant_id
            /\ ( /\ Submitted
                 /\ now < t + HourTicks
                 /\ \A i \in 1..Len(batch) : batch[i].id \notin revoked_ids )
                  => result = "Accepted"

\* C26 witness: a flow's batch with a netting record was accepted
C26_Witness ==
    /\ result = "Accepted"
    /\ KeysInTrustRoot
    /\ \E id \in 1..MaxId, t \in 0..MaxTime :
           batch = NettingMandates(keys, id, t, NoDev)

\* C27: every mandate a builder has just produced carries a proof whose
\* verificationMethod is '<issuer>#keys-1' for the issuer written into the
\* mandate, whose proofPurpose is 'assertionMethod' and whose signature was
\* made with that issuer's registered key; building and signing leave the key
\* store and the ledger as they were.
C27_BuilderProof ==
    [][(batch = <<>> /\ batch' # <<>>) =>
           /\ \A i \in 1..Len(batch') :
                  LET m == batch'[i]
                  IN  /\ m.issuer \in DOMAIN keys
                      /\ m.proof.present /\ m.proof.record
                      /\ m.proof.verificationMethod = <<m.issuer, "keys-1">>
                      /\ m.proof.proofPurpose = "assertionMethod"
                      /\ m.proof.proofValue.key = key_get_signer(keys, m.issuer)
           /\ UNCHANGED <<keys, nextKey, trusted_issuers, transactions,
                          revoked_ids>>]_vars

\* C27 witness: a flow has built four mandates after the first issuer's key
\* was generated anew
C27_Witness ==
    /\ Len(batch) = 4
    /\ batch = signedAs
    /\ edits = 0
    /\ keys[sending_signer] # MainKeys[sending_signer]
    /\ batch[1].proof.proofValue.key = keys[sending_signer]

\* C28: a replay of the ledger file appends to the transaction sequence
\* exactly the batches that save_to_file wrote, in their order, whatever the
\* text in their fields, and leaves the file as it was.
C28_ReplayReconstructs ==
    [][(checked'.op = "replay" /\ (checked' # checked \/ transactions' # transactions))
          => /\ transactions' = transactions \o log
             /\ log' = log]_vars

\* issuers of the trust root whose key was generated anew after the export
Regenerated ==
    {x \in DOMAIN trusted_issuers :
        x \in DOMAIN keys /\ key_get_pubkey_b58(keys, x) # trusted_issuers[x]}

\* mandate m names issuer x and carries a signature made with x's old key
\* or with x's new key
SignedBy(m, x) ==
    /\ m.issuer = x
    /\ m.proof.present /\ m.proof.record
    /\ m.proof.proofValue.key \in {MainKeys[x], keys[x]}

\* C29: after key_generate_issuer was called for an issuer of the trust root
\* and the trust root was left as exported, a batch with a mandate of that
\* issuer, signed with the old or with the new key, is not accepted, and it
\* is rejected as UntrustedIssuer when that mandate is the first to fail; a
\* batch in which the issuer does not occur gets the outcome it would get had
\* the key not been generated anew.
C29_RegeneratedIssuerRejected ==
    Submitted =>
        \A x \in Regenerated :
            /\ \A i \in 1..Len(batch) :
                   SignedBy(batch[i], x) =>
                       /\ result # "Accepted"
                       /\ PrefixPasses(i) => result = "UntrustedIssuer"
            /\ (\A i \in 1..Len(batch) :
                    batch[i].issuer # x /\ VmIssuer(batch[i]) # x) =>
                   result = add_transaction_outcome(batch, trusted_issuers,
                                [keys EXCEPT ![x] = MainKeys[x]], revoked_ids, now)

\* C29 witness: a flow's batch signed with the new key of the first issuer
\* was rejected at the trust check
C29_Witness ==
    /\ result = "UntrustedIssuer"
    /\ sending_signer \in Regenerated
    /\ Len(batch) >= 3
    /\ batch = signedAs
    /\ batch[1].proof.proofValue.key = keys[sending_signer]

\* the stored PaymentMandates with the id vc_id
StoredPayments(vc_id) ==
    LET ms == StoredMandates(transactions)
    IN  {ms[k] : k \in {j \in 1..Len(ms) :
                          ms[j].type = "PaymentMandate" /\ ms[j].id = vc_id}}

====
